---- MODULE Spec2Model ----
(***************************************************************************)
(* Model of cetlvast/cmake/bin/test_report_util.py: the translator of      *)
(* JUnit XML reports into the SonarQube generic test execution format,     *)
(* and of the two command-line helpers that run the builds,                *)
(* build-tools/bin/verify.py and cetlvast/verify.py. Each specification    *)
(* runs one of the three scripts; the variables a script does not use      *)
(* keep their initial value.                                               *)
(*                                                                         *)
(* Strings are sequences of tokens (characters for messages, names and     *)
(* numbers; path components for file names, "/" first when absolute).      *)
(* An optional value is a sequence of length at most one: None is <<>>,    *)
(* Some(v) is <<v>>.                                                       *)
(***************************************************************************)
EXTENDS Integers, Sequences, FiniteSets, TLC

VARIABLES args, fs, pc, idx, test_executions, warnings, errors, exit_code, raised,
          calls, logging_level

vars == <<args, fs, pc, idx, test_executions, warnings, errors, exit_code, raised,
          calls, logging_level>>

None == <<>>
Some(v) == <<v>>
IsNone(o) == o = <<>>
Val(o) == o[1]

\* ---------------------------------------------------------------- bounds
MaxInputs == 2
MaxGlob == 1
MaxCases == 2

\* ------------------------------------------------- xml.etree.ElementTree
NoAttrib == [file |-> None, classname |-> None, name |-> None,
             type_param |-> None, time |-> None, message |-> None]

Element(tag, attrib, text, children) ==
    [tag |-> tag, attrib |-> attrib, text |-> text, children |-> children]

get(element, key) == element.attrib[key]

getOr(element, key, default) ==
    IF IsNone(element.attrib[key]) THEN default ELSE Val(element.attrib[key])

RECURSIVE findall(_, _)
findall(children, tag) ==
    IF children = <<>> THEN <<>>
    ELSE (IF Head(children).tag = tag THEN <<Head(children)>> ELSE <<>>)
         \o findall(Tail(children), tag)

find(children, tag) ==
    LET all == findall(children, tag)
    IN IF all = <<>> THEN None ELSE Some(Head(all))

\* ------------------------------------------------------------ str methods
NL == "\n"
Whitespace == {" ", "\n", "\t"}

RECURSIVE split(_)
split(s) ==
    IF \A i \in 1..Len(s) : s[i] # NL THEN <<s>>
    ELSE LET i == CHOOSE k \in 1..Len(s) :
                      s[k] = NL /\ \A m \in 1..(k - 1) : s[m] # NL
         IN <<SubSeq(s, 1, i - 1)>> \o split(SubSeq(s, i + 1, Len(s)))

RECURSIVE join(_)
join(lines) ==
    IF lines = <<>> THEN <<>>
    ELSE IF Len(lines) = 1 THEN lines[1]
    ELSE lines[1] \o <<NL>> \o join(Tail(lines))

RECURSIVE rstrip(_)
rstrip(s) ==
    IF s = <<>> THEN s
    ELSE IF s[Len(s)] \in Whitespace THEN rstrip(SubSeq(s, 1, Len(s) - 1))
    ELSE s

\* ---------------------------------------------------- float(), int(), str()
Digits == <<"0", "1", "2", "3", "4", "5", "6", "7", "8", "9">>
IsDigit(c) == \E d \in 1..10 : Digits[d] = c
DigitVal(c) == (CHOOSE d \in 1..10 : Digits[d] = c) - 1

RECURSIVE DigitsVal(_)
DigitsVal(s) ==
    IF s = <<>> THEN 0 ELSE 10 * DigitsVal(SubSeq(s, 1, Len(s) - 1)) + DigitVal(s[Len(s)])

\* float(s) for decimal literals of at most two fractional digits; the value
\* is kept in hundredths.  None stands for ValueError.
Hundredths(ip, fp) ==
    IF /\ Len(ip) + Len(fp) >= 1
       /\ Len(fp) <= 2
       /\ \A i \in 1..Len(ip) : IsDigit(ip[i])
       /\ \A i \in 1..Len(fp) : IsDigit(fp[i])
    THEN Some(100 * DigitsVal(ip) + (IF Len(fp) = 1 THEN 10 ELSE 1) * DigitsVal(fp))
    ELSE None

DotAt(body) ==
    IF \E i \in 1..Len(body) : body[i] = "."
    THEN CHOOSE i \in 1..Len(body) : body[i] = "." /\ \A k \in 1..(i - 1) : body[k] # "."
    ELSE Len(body) + 1

Unsigned(body, dot) == Hundredths(SubSeq(body, 1, dot - 1), SubSeq(body, dot + 1, Len(body)))

Negated(f) == IF IsNone(f) THEN None ELSE Some(0 - Val(f))

float(s) ==
    IF s # <<>> /\ s[1] = "-" THEN Negated(Unsigned(Tail(s), DotAt(Tail(s))))
    ELSE Unsigned(s, DotAt(s))

\* int(x) of a float kept in hundredths: truncation towards zero.
int(x) == IF x >= 0 THEN x \div 100 ELSE 0 - ((0 - x) \div 100)

RECURSIVE NatStr(_)
NatStr(n) == IF n < 10 THEN <<Digits[n + 1]>> ELSE NatStr(n \div 10) \o <<Digits[(n % 10) + 1]>>

\* str(n) of an int
str(n) == IF n < 0 THEN <<"-">> \o NatStr(0 - n) ELSE NatStr(n)

\* ------------------------------------------------------------- os.path
Cwd == <<"/", "work">>

isabs(p) == p # <<>> /\ p[1] = "/"

RECURSIVE normcomps(_, _)
normcomps(done, rest) ==
    IF rest = <<>> THEN done
    ELSE IF Head(rest) \in {".", "/"} THEN normcomps(done, Tail(rest))
    ELSE IF Head(rest) = ".."
         THEN normcomps(IF done = <<>> THEN done ELSE SubSeq(done, 1, Len(done) - 1), Tail(rest))
    ELSE normcomps(Append(done, Head(rest)), Tail(rest))

\* the components of os.path.abspath(p), without the root
abspath(p) == normcomps(<<>>, IF isabs(p) THEN p ELSE Cwd \o p)

RECURSIVE commonprefix(_, _)
commonprefix(a, b) ==
    IF a = <<>> \/ b = <<>> \/ Head(a) # Head(b) THEN 0
    ELSE 1 + commonprefix(Tail(a), Tail(b))

RelList(start_list, path_list, i) ==
    [k \in 1..(Len(start_list) - i) |-> ".."] \o SubSeq(path_list, i + 1, Len(path_list))

CurdirIfEmpty(rel_list) == IF rel_list = <<>> THEN <<".">> ELSE rel_list

RelFrom(start_list, path_list) ==
    CurdirIfEmpty(RelList(start_list, path_list, commonprefix(start_list, path_list)))

\* os.path.relpath(path, start) on POSIX; None stands for ValueError
relpath(path, start) ==
    IF path = <<>> THEN None ELSE Some(RelFrom(abspath(start), abspath(path)))

\* ------------------------------------------------------ output elements
FileElement(path) == [tag |-> "file", path |-> path, children |-> <<>>]

TestCaseElement(name, duration) ==
    [tag |-> "testCase", name |-> name, duration |-> duration, children |-> <<>>]

SubElement(tag, message, text) == [tag |-> tag, message |-> message, text |-> text]

\* ------------------- _junit_to_sonarqube_generic_execution_format, by parts
\* testcase_file with the two attributes probed in the other order
testcase_file_classname_first(testcase) ==
    IF ~IsNone(get(testcase, "classname")) THEN get(testcase, "classname")
    ELSE get(testcase, "file")

\* lines 51-59: the file key of a test case, None when the node is skipped
testcase_file(testcase) ==
    IF ~IsNone(get(testcase, "file")) THEN get(testcase, "file")
    ELSE get(testcase, "classname")

quirksmode(testcase) == IF ~IsNone(get(testcase, "file")) THEN "gtest" ELSE "ctest"

\* testcase_name with type_param appended without the space
testcase_name_no_space(testcase) ==
    LET name       == getOr(testcase, "name", <<>>)
        type_param == get(testcase, "type_param")
    IN IF type_param # None THEN name \o Val(type_param) ELSE name

\* lines 61-64
testcase_name(testcase) ==
    LET name       == getOr(testcase, "name", <<>>)
        type_param == get(testcase, "type_param")
    IN IF type_param # None THEN name \o <<" ">> \o Val(type_param) ELSE name

\* lines 72-78
OrElse(rel_path, testcase_file_) == IF IsNone(rel_path) THEN testcase_file_ ELSE Val(rel_path)

\* file_path without regard to base_dir
file_path_raw(key, base_dir) == key

\* lines 71-78
file_path(key, base_dir) ==
    IF ~IsNone(base_dir) THEN OrElse(relpath(key, Val(base_dir)), key) ELSE key

\* lines 85-86: None stands for the ValueError of float()
IntStr(f) == IF IsNone(f) THEN None ELSE Some(str(int(Val(f))))

test_duration(testcase) ==
    IF IsNone(get(testcase, "time")) THEN IntStr(Some(0))
    ELSE IntStr(float(Val(get(testcase, "time"))))

\* lines 91-95: None stands for the AttributeError of None.rstrip()
sq_skipped(skipped) ==
    IF IsNone(skipped.text) THEN None
    ELSE Some(SubElement("skipped", rstrip(getOr(skipped, "message", <<>>)),
                         Some(rstrip(Val(skipped.text)))))

\* sq_failure_text reading the first <failure> only
sq_failure_text_first_only(failures) ==
    IF failures = <<>> THEN <<>> ELSE split(getOr(Head(failures), "message", <<>>))

\* lines 100-103
RECURSIVE sq_failure_text(_)
sq_failure_text(failures) ==
    IF failures = <<>> THEN <<>>
    ELSE split(getOr(Head(failures), "message", <<>>)) \o sq_failure_text(Tail(failures))

\* FailureOf with a body only when more than one line follows the first
FailureOf_two_after_first(lines) ==
    SubElement("failure", lines[1], IF Len(lines) > 2 THEN Some(join(Tail(lines))) ELSE None)

\* lines 104-106
FailureOf(lines) ==
    SubElement("failure", lines[1], IF Len(lines) > 1 THEN Some(join(Tail(lines))) ELSE None)

\* lines 98-106
sq_failure(failures) == FailureOf(sq_failure_text(failures))

\* The state of one call is [tree, sq_files, sq_file, warnings, raised]: tree
\* is test_executions, sq_files maps a file key to the position of its <file>
\* element in tree, sq_file is the position of the current one.
Raise(st, exception) == [st EXCEPT !.raised = exception]

\* lines 68-81
Resolve(st, key, base_dir) ==
    IF key \in DOMAIN st.sq_files
    THEN [st EXCEPT !.sq_file = st.sq_files[key]]
    ELSE [st EXCEPT !.tree = Append(@, FileElement(file_path(key, base_dir))),
                    !.sq_files = (key :> (Len(st.tree) + 1)) @@ @,
                    !.sq_file = Len(st.tree) + 1]

\* AppendTestCase putting the new test case before the others of its file
AppendTestCase_first(st, sq_test_case) ==
    [st EXCEPT !.tree[st.sq_file].children = <<sq_test_case>> \o @]

\* lines 88-89
AppendTestCase(st, sq_test_case) ==
    [st EXCEPT !.tree[st.sq_file].children = Append(@, sq_test_case)]

\* lines 95 and 99: append to the test case appended last
AppendSub(st, sub) ==
    [st EXCEPT !.tree[st.sq_file].children[Len(st.tree[st.sq_file].children)].children =
                   Append(@, sub)]

\* lines 96-106
Failures(st, failures) ==
    IF Len(failures) > 0 THEN AppendSub(st, sq_failure(failures)) ELSE st

\* lines 91-95
SkippedSub(st, sk) == IF IsNone(sk) THEN Raise(st, "AttributeError") ELSE AppendSub(st, Val(sk))

Skipped(st, skipped) == IF IsNone(skipped) THEN st ELSE SkippedSub(st, sq_skipped(Val(skipped)))

\* lines 91-106
Outcome(st, testcase) ==
    IF st.raised # "" THEN st ELSE Failures(st, findall(testcase.children, "failure"))

\* lines 83-106
Transcribe(st, testcase, name, dur) ==
    IF IsNone(dur) THEN Raise(st, "ValueError")
    ELSE Outcome(Skipped(AppendTestCase(st, TestCaseElement(name, Val(dur))),
                         find(testcase.children, "skipped")),
                 testcase)

\* lines 49-106: one iteration of the loop over the children of a suite
ForTestcase(st, testcase, base_dir) ==
    IF st.raised # "" THEN st
    ELSE IF IsNone(testcase_file(testcase))
    THEN [st EXCEPT !.warnings = @ + 1]
    ELSE Transcribe(Resolve(st, Val(testcase_file(testcase)), base_dir), testcase,
                    testcase_name(testcase), test_duration(testcase))

\* ForTestcases leaving the suite at the first node without a file key
RECURSIVE ForTestcases_break(_, _, _)
ForTestcases_break(st, testcases, base_dir) ==
    IF testcases = <<>> THEN st
    ELSE IF st.raised = "" /\ IsNone(testcase_file(Head(testcases)))
    THEN ForTestcase(st, Head(testcases), base_dir)
    ELSE ForTestcases_break(ForTestcase(st, Head(testcases), base_dir), Tail(testcases), base_dir)

\* line 49
RECURSIVE ForTestcases(_, _, _)
ForTestcases(st, testcases, base_dir) ==
    IF testcases = <<>> THEN st
    ELSE ForTestcases(ForTestcase(st, Head(testcases), base_dir), Tail(testcases), base_dir)

\* line 43
RECURSIVE ForTestsuites(_, _, _)
ForTestsuites(st, testsuites, base_dir) ==
    IF testsuites = <<>> THEN st
    ELSE ForTestsuites(ForTestcases(st, Head(testsuites).children, base_dir),
                       Tail(testsuites), base_dir)

\* lines 33-34: the file-key index is created anew by every call
NewSqFiles == [k \in {} |-> 0]

NewCall(tree) ==
    [tree |-> tree, sq_files |-> NewSqFiles, sq_file |-> 0, warnings |-> 0, raised |-> ""]

\* lines 36-41
testsuites(root) ==
    IF root.tag = "testsuite" THEN <<root>> ELSE findall(root.children, "testsuite")

\* lines 26-106.  A report is [parse, root]: parse is "ok" or the name of the
\* exception ET.parse raises for that file.
junit_to_sonarqube_generic_execution_format(junit_report, tree, base_dir) ==
    IF junit_report.parse # "ok" THEN Raise(NewCall(tree), junit_report.parse)
    ELSE ForTestsuites(NewCall(tree), testsuites(junit_report.root), base_dir)

\* Returned without the except clause: ParseError leaves append
Returned_uncaught(st) ==
    [ret |-> IF st.raised = "" THEN 0 ELSE 1, tree |-> st.tree, warnings |-> st.warnings,
     raised |-> st.raised]

\* lines 151-157: [ret, tree, warnings, raised]
Returned(st) ==
    IF st.raised = "" THEN
        [ret |-> 0, tree |-> st.tree, warnings |-> st.warnings, raised |-> ""]
    ELSE IF st.raised = "ParseError" THEN
        [ret |-> 1, tree |-> st.tree, warnings |-> st.warnings + 1, raised |-> ""]
    ELSE
        [ret |-> 1, tree |-> st.tree, warnings |-> st.warnings, raised |-> st.raised]

append(test_report, sq_report, base_dir) ==
    Returned(junit_to_sonarqube_generic_execution_format(test_report, sq_report, base_dir))

\* ------------------------------------------------------------------ main
\* the position after the i-th element of a loop of main: lines 186, 192, 196
RECURSIVE Position(_, _, _)
Position(a, phase, i) ==
    IF phase = "glob"
    THEN IF i <= Len(a.glob) THEN <<"glob", i>> ELSE Position(a, "input", 1)
    ELSE IF i <= Len(Val(a.input)) THEN <<"input", i>> ELSE <<"write", 0>>

\* Start returning 0 without a log entry when there is no --input
Start_silent ==
    /\ pc = "start"
    /\ IF IsNone(args.input)
       THEN /\ exit_code' = Some(0)
            /\ pc' = "done"
            /\ idx' = idx
            /\ UNCHANGED errors
       ELSE /\ pc' = Position(args, "glob", 1)[1]
            /\ idx' = Position(args, "glob", 1)[2]
            /\ UNCHANGED <<errors, exit_code>>
    /\ test_executions' = <<>>
    /\ UNCHANGED <<args, fs, warnings, raised, calls, logging_level>>

\* lines 167-183
Start ==
    /\ pc = "start"
    /\ IF IsNone(args.input)
       THEN /\ errors' = errors + 1
            /\ exit_code' = Some(1)
            /\ pc' = "done"
            /\ idx' = idx
       ELSE /\ pc' = Position(args, "glob", 1)[1]
            /\ idx' = Position(args, "glob", 1)[2]
            /\ UNCHANGED <<errors, exit_code>>
    /\ test_executions' = <<>>
    /\ UNCHANGED <<args, fs, warnings, raised, calls, logging_level>>

\* Appended without the stop_on_failure test: the loops go on after a failure
Appended_continue(phase, r) ==
    /\ test_executions' = r.tree
    /\ warnings' = warnings + r.warnings
    /\ raised' = r.raised
    /\ IF r.raised # ""
       THEN /\ exit_code' = Some(1)
            /\ pc' = "done"
            /\ idx' = idx
       ELSE /\ pc' = Position(args, phase, idx + 1)[1]
            /\ idx' = Position(args, phase, idx + 1)[2]
            /\ UNCHANGED exit_code
    /\ UNCHANGED <<args, fs, errors, calls, logging_level>>

\* lines 189-190 and 193-194: what main does with the result r of append
Appended(phase, r) ==
    /\ test_executions' = r.tree
    /\ warnings' = warnings + r.warnings
    /\ raised' = r.raised
    /\ IF r.raised # "" \/ (r.ret # 0 /\ args.stop_on_failure)
       THEN /\ exit_code' = Some(1)
            /\ pc' = "done"
            /\ idx' = idx
       ELSE /\ pc' = Position(args, phase, idx + 1)[1]
            /\ idx' = Position(args, phase, idx + 1)[2]
            /\ UNCHANGED exit_code
    /\ UNCHANGED <<args, fs, errors, calls, logging_level>>

AppendStep(phase, test_report) ==
    Appended(phase, append(test_report, test_executions, args.base_dir))

\* lines 185-190
AppendGlob ==
    /\ pc = "glob"
    /\ AppendStep("glob", args.glob[idx])

\* lines 192-194
AppendInput ==
    /\ pc = "input"
    /\ AppendStep("input", Val(args.input)[idx])

\* Write without the dry_run test: the file is written in every run
Write_always ==
    /\ pc = "write"
    /\ IF fs.output_dir
       THEN /\ fs' = [fs EXCEPT !.output = Some(test_executions)]
            /\ exit_code' = Some(0)
            /\ UNCHANGED raised
       ELSE /\ raised' = "FileNotFoundError"
            /\ exit_code' = Some(1)
            /\ UNCHANGED fs
    /\ pc' = "done"
    /\ UNCHANGED <<args, idx, test_executions, warnings, errors, calls, logging_level>>

\* lines 196-204
Write ==
    /\ pc = "write"
    /\ IF args.dry_run
       THEN /\ exit_code' = Some(0)
            /\ UNCHANGED <<fs, raised>>
       ELSE IF fs.output_dir
       THEN /\ fs' = [fs EXCEPT !.output = Some(test_executions)]
            /\ exit_code' = Some(0)
            /\ UNCHANGED raised
       ELSE /\ raised' = "FileNotFoundError"
            /\ exit_code' = Some(1)
            /\ UNCHANGED fs
    /\ pc' = "done"
    /\ UNCHANGED <<args, idx, test_executions, warnings, errors, calls, logging_level>>

Next == Start \/ AppendGlob \/ AppendInput \/ Write

\* ------------------------------------------------------------ the inputs
RECURSIVE SeqsUpTo(_, _)
SeqsUpTo(S, n) ==
    IF n = 0 THEN {<<>>}
    ELSE LET shorter == SeqsUpTo(S, n - 1)
         IN shorter \cup {Append(s, x) : s \in {t \in shorter : Len(t) = n - 1}, x \in S}

\* a parsed report whose root is a bare <testsuite> holding the test cases
BareSuite(testcases) ==
    [parse |-> "ok", root |-> Element("testsuite", NoAttrib, None, testcases)]

\* a parsed report whose root is <testsuites> holding one suite per element
Suites(suites) ==
    [parse |-> "ok",
     root |-> Element("testsuites", NoAttrib, None,
                      [i \in 1..Len(suites) |-> Element("testsuite", NoAttrib, None, suites[i])])]

\* a file that is not well-formed XML
Malformed == [parse |-> "ParseError", root |-> Element("", NoAttrib, None, <<>>)]

\* one suite per test case in <testsuites>
SuitePerCase(testcases) == Suites([i \in 1..Len(testcases) |-> <<testcases[i]>>])

DocsOf(Testcases) ==
    {BareSuite(cs) : cs \in SeqsUpTo(Testcases, MaxCases)}
    \cup {Suites(<<cs>>) : cs \in SeqsUpTo(Testcases, MaxCases)}
    \cup {SuitePerCase(cs) : cs \in SeqsUpTo(Testcases, MaxCases)}

TestcaseNode(tag, attrib, children) == Element(tag, attrib, None, children)

RepoDir == <<"/", "repo">>
FileA == <<"/", "repo", "a.cpp">>
FileA2 == <<"/", "repo", ".", "a.cpp">>
ClassK == <<"Suite">>

tcFile == TestcaseNode("testcase", [NoAttrib EXCEPT !.file = Some(FileA), !.name = Some(<<"f">>)], <<>>)
tcFile2 == TestcaseNode("testcase", [NoAttrib EXCEPT !.file = Some(FileA2), !.name = Some(<<"g">>)], <<>>)
tcBoth == TestcaseNode("testcase", [NoAttrib EXCEPT !.file = Some(FileA), !.classname = Some(ClassK),
                                                   !.name = Some(<<"b">>)], <<>>)
tcClass == TestcaseNode("testcase", [NoAttrib EXCEPT !.classname = Some(ClassK), !.name = Some(<<"c">>)], <<>>)
tcNeither == TestcaseNode("testcase", [NoAttrib EXCEPT !.name = Some(<<"n">>)], <<>>)
tcEmptyFile == TestcaseNode("testcase", [NoAttrib EXCEPT !.file = Some(<<>>), !.classname = Some(ClassK),
                                                        !.name = Some(<<"e">>)], <<>>)
tcEmptyBoth == TestcaseNode("testcase", [NoAttrib EXCEPT !.file = Some(<<>>), !.classname = Some(<<>>),
                                                        !.name = Some(<<"z">>)], <<>>)

\* the reports every run may meet besides the one under study
Context == {Malformed, BareSuite(<<tcFile>>)}

\* the input lists: one report under study among at most MaxInputs - 1 others
InsertAt(c, k, d) == SubSeq(c, 1, k) \o <<d>> \o SubSeq(c, k + 1, Len(c))

InputLists(Studied) ==
    {InsertAt(ck[1], ck[2], d) :
       ck \in {x \in SeqsUpTo(Context, MaxInputs - 1) \X (0..(MaxInputs - 1)) : x[2] <= Len(x[1])},
       d \in Studied}

\* the state after the command line was parsed: args.input is None without
\* --input and a non-empty list otherwise, args.glob is what the pattern
\* matches in the order the file system enumerates it; fs.output_dir tells
\* whether the directory of the output file exists and fs.output is the
\* content of the output file, None while there is no such file
InitWith(Inputs, Globs, Flags) ==
    /\ \E i \in {None} \cup {Some(s) : s \in Inputs}, g \in Globs, f \in Flags :
         /\ args = [input |-> i, glob |-> g, stop_on_failure |-> f.stop_on_failure,
                    dry_run |-> f.dry_run, base_dir |-> f.base_dir]
         /\ fs = [output_dir |-> f.output_dir, output |-> f.output]
    /\ pc = "start"
    /\ idx = 0
    /\ test_executions = <<>>
    /\ warnings = 0
    /\ errors = 0
    /\ exit_code = None
    /\ raised = ""
    /\ calls = <<>>
    /\ logging_level = ""

GroupingFlags ==
    {[stop_on_failure |-> FALSE, dry_run |-> FALSE, base_dir |-> b, output_dir |-> TRUE,
      output |-> None] :
       b \in {None, Some(RepoDir)}}

\* ---- the inputs of Spec: reports whose test cases share or repeat file keys
GroupingTestcases == {tcFile, tcFile2, tcNeither}

Init ==
    InitWith(InputLists(DocsOf(GroupingTestcases)), SeqsUpTo(Context, MaxGlob), GroupingFlags)

Spec == Init /\ [][Next]_vars

\* ---- the inputs of SpecQuirks: test cases with both, one, empty or no key
QuirksTestcases == {tcBoth, tcClass, tcEmptyFile, tcEmptyBoth}

InitQuirks ==
    InitWith(InputLists(DocsOf(QuirksTestcases)), SeqsUpTo(Context, MaxGlob), GroupingFlags)

SpecQuirks == InitQuirks /\ [][Next]_vars

\* ---- the inputs of SpecCase: one test case whose details vary
MaxMsgLen == 2
MaxFailures == 2

MessageChars == {"x", NL}

FailureNode(message) ==
    Element("failure", [NoAttrib EXCEPT !.message = message], None, <<>>)

FailureNodes ==
    {FailureNode(None)} \cup {FailureNode(Some(m)) : m \in SeqsUpTo(MessageChars, MaxMsgLen)}

Times ==
    {<<"0">>, <<"2">>, <<"1", ".", "7", "5">>, <<"0", ".", "5">>, <<"-", "1", ".", "5">>,
     <<"1", "2">>, <<"x">>, <<>>}

CaseAttrib == [NoAttrib EXCEPT !.file = Some(FileA), !.name = Some(<<"t">>)]

CaseTestcases ==
    {TestcaseNode("testcase", CaseAttrib, fl) : fl \in SeqsUpTo(FailureNodes, MaxFailures)}
    \cup {TestcaseNode("testcase", [CaseAttrib EXCEPT !.time = Some(t)], <<>>) : t \in Times}

\* the test case alone, before another test case and another input, and
\* after a malformed input
CaseInputs ==
    {<<BareSuite(<<tc>>)>> : tc \in CaseTestcases}
    \cup {<<BareSuite(<<tc, tcFile>>), BareSuite(<<tcFile>>)>> : tc \in CaseTestcases}
    \cup {<<Malformed, BareSuite(<<tc>>)>> : tc \in CaseTestcases}

CaseGlobs == {<<>>, <<BareSuite(<<tcFile>>)>>}

CaseFlags ==
    {[stop_on_failure |-> s, dry_run |-> FALSE, base_dir |-> None, output_dir |-> TRUE,
      output |-> None] :
       s \in BOOLEAN}

InitCase == InitWith(CaseInputs, CaseGlobs, CaseFlags)

SpecCase == InitCase /\ [][Next]_vars

\* ---- the inputs of SpecAttr: one test case whose <skipped> child, name,
\* type_param or file varies
MaxTextLen == 2

TextChars == {"b", " "}

SkippedNode(message, text) ==
    Element("skipped", [NoAttrib EXCEPT !.message = message], text, <<>>)

\* the text of an element is None when the element has no character data
Texts == {None} \cup {Some(t) : t \in SeqsUpTo(TextChars, MaxTextLen) \ {<<>>}}

SkippedMessages == {None} \cup {Some(m) : m \in SeqsUpTo(TextChars, MaxTextLen)}

SkippedNodes == {SkippedNode(m, t) : m \in SkippedMessages, t \in Texts}

Foo == <<"F", "o", "o">>
IntParam == <<"i", "n", "t">>

NamedAttrib(name, type_param) ==
    [NoAttrib EXCEPT !.file = Some(FileA), !.name = name, !.type_param = type_param]

NamedTestcases ==
    {TestcaseNode("testcase", NamedAttrib(n, t), <<>>) :
       n \in {None, Some(Foo)}, t \in {None, Some(<<>>), Some(IntParam)}}

FileX == <<"/", "repo", "src", "x.cpp">>
FileOther == <<"/", "other", "x.cpp">>

tcFileX == TestcaseNode("testcase", [NoAttrib EXCEPT !.file = Some(FileX), !.name = Some(<<"p">>)], <<>>)
tcFileOther == TestcaseNode("testcase", [NoAttrib EXCEPT !.file = Some(FileOther), !.name = Some(<<"q">>)], <<>>)
tcClassX == TestcaseNode("testcase", [NoAttrib EXCEPT !.classname = Some(FileX), !.name = Some(<<"r">>)], <<>>)

\* children of a suite that are no test cases, with and without a key
tcProperties == TestcaseNode("properties", [NoAttrib EXCEPT !.file = Some(FileA), !.name = Some(<<"v">>)], <<>>)
tcSystemOut == TestcaseNode("system-out", [NoAttrib EXCEPT !.classname = Some(ClassK)], <<>>)
tcPlainProperties == TestcaseNode("properties", NoAttrib, <<>>)

AttrTestcases ==
    {tcProperties, tcSystemOut, tcPlainProperties}
    \cup {TestcaseNode("testcase", CaseAttrib, <<sk>>) : sk \in SkippedNodes}
    \cup {TestcaseNode("testcase", CaseAttrib, <<sk, FailureNode(Some(<<"x">>))>>) : sk \in SkippedNodes}
    \cup NamedTestcases
    \cup {tcFileX, tcFileOther, tcClassX}

\* the test case alone, before another test case and another input, and
\* after a malformed input
AttrInputs ==
    {<<BareSuite(<<tc>>)>> : tc \in AttrTestcases}
    \cup {<<BareSuite(<<tc, tcFile>>), BareSuite(<<tcFile>>)>> : tc \in AttrTestcases}
    \cup {<<Malformed, BareSuite(<<tc>>)>> : tc \in AttrTestcases}

InitAttr == InitWith(AttrInputs, CaseGlobs, GroupingFlags)

SpecAttr == InitAttr /\ [][Next]_vars

\* ---- the inputs of SpecRun: well-formed and malformed reports in every
\* order, under every combination of the flags, with and without the
\* directory of the output file
MaxRunInputs == 3

RunA == BareSuite(<<tcFile>>)
RunB == Suites(<<(<<tcFile2>>), (<<tcClass>>)>>)

RunReports == {Malformed, RunA, RunB}

RunInputs == SeqsUpTo(RunReports, MaxRunInputs) \ {<<>>}

\* the content of an output file left by an earlier run
Stale == <<FileElement(<<"stale">>)>>

\* the output file may exist before the run, in an existing directory
RunFlags ==
    {[stop_on_failure |-> s, dry_run |-> d, base_dir |-> None, output_dir |-> o.output_dir,
      output |-> o.output] :
       s \in BOOLEAN, d \in BOOLEAN,
       o \in {[output_dir |-> FALSE, output |-> None], [output_dir |-> TRUE, output |-> None],
              [output_dir |-> TRUE, output |-> Some(Stale)]}}

InitRun == InitWith(RunInputs, SeqsUpTo(Context, MaxGlob), RunFlags)

SpecRun == InitRun /\ [][Next]_vars

\* ---- the inputs of SpecLoad: --input paths that are well-formed reports,
\* malformed reports or no file at all
\* an --input path that does not exist: ET.parse raises FileNotFoundError
Missing == [parse |-> "FileNotFoundError", root |-> Element("", NoAttrib, None, <<>>)]

InitLoad ==
    InitWith(SeqsUpTo({Missing, Malformed, RunA}, MaxInputs) \ {<<>>},
             SeqsUpTo(Context, MaxGlob), RunFlags)

SpecLoad == InitLoad /\ [][Next]_vars

\* ---- the inputs of SpecGlob: the files the pattern matches, in every order
\* in which the file system may enumerate them
MaxGlobFiles == 2

\* the sequences without repetition of at most n elements of S
Enumerations(S, n) ==
    {e \in SeqsUpTo(S, n) : \A i, j \in 1..Len(e) : e[i] = e[j] => i = j}

InitGlob ==
    InitWith({<<RunA>>, <<Malformed>>},
             Enumerations({Malformed, RunA, RunB}, MaxGlobFiles), RunFlags)

SpecGlob == InitGlob /\ [][Next]_vars

\* ============================================== build-tools/bin/verify.py
\* The state of a run of the build-stage sequencer: args is the namespace
\* of the command line, fs.build_dir tells whether the build directory
\* exists, calls lists the stage functions main has called so far, each with
\* whether it started cmake or ctest and with what it returned, and
\* logging_level is the level given to logging.basicConfig.
\*
\* The action word of the command line is a string of tokens: a token is a
\* run of word characters or one hyphen, and no two runs are adjacent.
Hyphen == "-"

\* a str and what its methods need: the value is in name
StrOf(tokens) == [type |-> "str", name |-> tokens, suffix |-> None]

RECURSIVE Hyphens(_)
\* the number of hyphens the string starts with
Hyphens(s) == IF s = <<>> \/ s[1] # Hyphen THEN 0 ELSE 1 + Hyphens(Tail(s))

\* (?:-+(?P<suffix>\S+))? matched against what follows the action: the
\* hyphens are skipped and the rest is the suffix; when nothing follows two
\* or more hyphens the last of them is the suffix, and when nothing follows
\* one hyphen the group does not take part in the match
SuffixGroup(rest) ==
    IF Hyphens(rest) = 0 THEN None
    ELSE IF Len(rest) > Hyphens(rest)
    THEN Some(SubSeq(rest, Hyphens(rest) + 1, Len(rest)))
    ELSE IF Hyphens(rest) >= 2 THEN Some(<<Hyphen>>)
    ELSE None

\* QualifiedAction.__init__: (?P<action>\w+) is the run of word characters
\* the string starts with, and without one the pattern does not match
QualifiedAction(input) ==
    IF input = <<>> \/ input[1] = Hyphen
    THEN [type |-> "QualifiedAction", name |-> <<>>, suffix |-> None]
    ELSE [type |-> "QualifiedAction", name |-> <<input[1]>>,
          suffix |-> SuffixGroup(Tail(input))]

\* QualifiedAction.__eq__, and str.__eq__ once args.action is a str
ActionEq(self, other) ==
    IF self.type = "QualifiedAction" /\ other.type = "QualifiedAction"
    THEN other.name = self.name /\ other.suffix = self.suffix
    ELSE other.name = self.name

\* argparse's test of the converted value: value in choices
InChoices(value) ==
    \E c \in {<<"clean">>, <<"configure">>, <<"build">>, <<"test">>, <<"release">>} :
        ActionEq(value, StrOf(c))

\* subprocess.run(..., cwd=_build_dir(args)): the child cannot start in a
\* directory that does not exist, else it returns the code rc of the command
subprocess_run(f, rc) ==
    IF f.build_dir
    THEN [raised |-> "", result |-> Some(rc), run |-> TRUE]
    ELSE [raised |-> "FileNotFoundError", result |-> None, run |-> FALSE]

\* _cmake_run, and the tail of _cmake_ctest: nothing is started in a dry run
cmake_run(a, f, rc) ==
    IF ~a.dry_run
    THEN subprocess_run(f, rc)
    ELSE [raised |-> "", result |-> Some(0), run |-> FALSE]

\* _create_build_dir_action
create_build_dir_action(a, f) ==
    IF ~f.build_dir /\ ~a.dry_run THEN [f EXCEPT !.build_dir = TRUE] ELSE f

\* the entry of calls for a stage function and its outcome
Call(target, out) ==
    [target |-> target, run |-> out.run, raised |-> out.raised, result |-> out.result]

\* a stage counting as failed only when its code is positive
Failed_positive(result) == result > 0

\* result != 0
Failed(result) == result # 0

\* what main does with the outcome of a stage function: it returns a
\* non-zero result, returns 0 after the stage of the action, and goes on to
\* the next stage otherwise; an exception leaves main
StageReturned(out, last, next) ==
    /\ raised' = out.raised
    /\ IF out.raised # ""
       THEN /\ exit_code' = Some(1)
            /\ pc' = "done"
       ELSE IF Failed(Val(out.result))
       THEN /\ exit_code' = out.result
            /\ pc' = "done"
       ELSE IF last
       THEN /\ exit_code' = Some(0)
            /\ pc' = "done"
       ELSE /\ pc' = next
            /\ UNCHANGED exit_code

\* the codes a command can return: a signal, success, or an error
MaxReturnCode == 2
ReturnCodes == -1..MaxReturnCode

\* a stage function that runs cmake or ctest in the build directory
Stage(target, last, next) ==
    \E rc \in ReturnCodes :
        /\ calls' = Append(calls, Call(target, cmake_run(args, fs, rc)))
        /\ StageReturned(cmake_run(args, fs, rc), last, next)

\* parse_args: the action becomes a QualifiedAction and is rejected with
\* status 2 when it is not among the choices; then the logging level is set
ParseArgs ==
    /\ pc = "parse"
    /\ args' = [args EXCEPT !.action = QualifiedAction(args.action.name)]
    /\ IF InChoices(QualifiedAction(args.action.name))
       THEN /\ logging_level' = IF args.verbose = 2 THEN "INFO"
                                 ELSE IF args.verbose >= 3 THEN "DEBUG"
                                 ELSE "WARN"
            /\ pc' = "clean"
            /\ UNCHANGED exit_code
       ELSE /\ exit_code' = Some(2)
            /\ pc' = "done"
            /\ UNCHANGED logging_level
    /\ UNCHANGED <<fs, idx, test_executions, warnings, errors, raised, calls>>

\* main, the clean block: the result of _cmake_clean is not looked at
Clean ==
    /\ pc = "clean"
    /\ IF ActionEq(args.action, StrOf(<<"clean">>))
       THEN \E rc \in ReturnCodes :
              /\ calls' = Append(calls, Call("clean", cmake_run(args, fs, rc)))
              /\ raised' = cmake_run(args, fs, rc).raised
              /\ IF cmake_run(args, fs, rc).raised # ""
                 THEN /\ exit_code' = Some(1)
                      /\ pc' = "done"
                      /\ UNCHANGED args
                 ELSE IF IsNone(args.action.suffix) \/ args.action.suffix = Some(<<"only">>)
                 THEN /\ exit_code' = Some(0)
                      /\ pc' = "done"
                      /\ UNCHANGED args
                 ELSE /\ args' = [args EXCEPT !.action = StrOf(Val(args.action.suffix))]
                      /\ pc' = "configure"
                      /\ UNCHANGED exit_code
       ELSE /\ pc' = "configure"
            /\ UNCHANGED <<args, calls, raised, exit_code>>
    /\ UNCHANGED <<fs, idx, test_executions, warnings, errors, logging_level>>

\* main, the configure block: the build directory is made, then cmake runs
Configure ==
    /\ pc = "configure"
    /\ fs' = create_build_dir_action(args, fs)
    /\ \E rc \in ReturnCodes :
         /\ calls' = Append(calls, Call("configure",
                                        cmake_run(args, create_build_dir_action(args, fs), rc)))
         /\ StageReturned(cmake_run(args, create_build_dir_action(args, fs), rc),
                          ActionEq(args.action, StrOf(<<"configure">>)), "build")
    /\ UNCHANGED <<args, idx, test_executions, warnings, errors, logging_level>>

\* main, the build block
Build ==
    /\ pc = "build"
    /\ Stage("build", ActionEq(args.action, StrOf(<<"build">>)), "test")
    /\ UNCHANGED <<args, fs, idx, test_executions, warnings, errors, logging_level>>

\* main, the test block: _cmake_test
Test ==
    /\ pc = "test"
    /\ Stage("unittest", FALSE, "ctest")
    /\ UNCHANGED <<args, fs, idx, test_executions, warnings, errors, logging_level>>

\* main, the test block: _cmake_ctest
CTest ==
    /\ pc = "ctest"
    /\ Stage("ctest", ActionEq(args.action, StrOf(<<"test">>)), "release")
    /\ UNCHANGED <<args, fs, idx, test_executions, warnings, errors, logging_level>>

\* main, the release block: _cmake_release
Release ==
    /\ pc = "release"
    /\ Stage("release", FALSE, "install")
    /\ UNCHANGED <<args, fs, idx, test_executions, warnings, errors, logging_level>>

\* main, the release block: _cmake_install
Install ==
    /\ pc = "install"
    /\ Stage("install", TRUE, "done")
    /\ UNCHANGED <<args, fs, idx, test_executions, warnings, errors, logging_level>>

NextStages ==
    ParseArgs \/ Clean \/ Configure \/ Build \/ Test \/ CTest \/ Release \/ Install

\* ---- the inputs of SpecStages: every action word made of a word, hyphens
\* and a second word, with and without --dry-run and the build directory
MaxHyphens == 2
MaxVerbose == 4
RECURSIVE Repeated(_, _)
Repeated(token, n) == IF n = 0 THEN <<>> ELSE <<token>> \o Repeated(token, n - 1)

\* without an action word the default "release" is converted in its place
InitStages ==
    /\ \E w, x \in {<<>>, <<"clean">>, <<"configure">>, <<"build">>, <<"test">>,
                     <<"release">>, <<"only">>, <<"all">>},
          h \in 0..MaxHyphens, dry \in BOOLEAN, dir \in BOOLEAN, v \in 0..MaxVerbose :
         /\ w # <<>>
         /\ h = 0 => x = <<>>
         /\ args = [action |-> StrOf(w \o Repeated(Hyphen, h) \o x), dry_run |-> dry,
                    verbose |-> v]
         /\ fs = [build_dir |-> dir]
    /\ pc = "parse"
    /\ idx = 0
    /\ test_executions = <<>>
    /\ warnings = 0
    /\ errors = 0
    /\ exit_code = None
    /\ raised = ""
    /\ calls = <<>>
    /\ logging_level = ""

SpecStages == InitStages /\ [][NextStages]_vars

\* ======================================================= cetlvast/verify.py
\* The state of a run of the suite runner: args is the namespace of the
\* command line, fs.build_dir tells whether the build directory cmake_dir
\* exists, calls lists the stage functions main has called, each with
\* whether it started cmake or ctest and with what it returned.

\* a stage function that returns result without starting a command
NotRun(result) == [raised |-> "", result |-> Some(result), run |-> FALSE]

\* _cmake_run
cetlvast_cmake_run(dry_run, f, rc) ==
    IF ~dry_run THEN subprocess_run(f, rc) ELSE NotRun(0)

\* str.lower on the letters of an answer
Lower(s) ==
    [i \in 1..Len(s) |->
        CASE s[i] = "Y" -> "y"
          [] s[i] = "E" -> "e"
          [] s[i] = "S" -> "s"
          [] OTHER -> s[i]]

\* the test of the answer to "Are you sure you want to delete ...? [y/N]:"
OkayToRemove(response) ==
    \/ Len(response) = 1 /\ Lower(response) = <<"y">>
    \/ Len(response) = 3 /\ Lower(response) = <<"y", "e", "s">>

\* _remove_build_dir_action: the file system it leaves and what it raises
remove_build_dir_action(a, f, response) ==
    IF a.remove_first /\ f.build_dir
    THEN IF a.force \/ OkayToRemove(response)
         THEN [fs |-> IF ~a.dry_run THEN [f EXCEPT !.build_dir = FALSE] ELSE f,
               raised |-> ""]
         ELSE [fs |-> f, raised |-> "RuntimeError"]
    ELSE [fs |-> f, raised |-> ""]

\* _create_build_dir_action
cetlvast_create_build_dir_action(a, f) ==
    IF ~f.build_dir /\ ~a.dry_run THEN [f EXCEPT !.build_dir = TRUE] ELSE f

\* _cmake_configure
cetlvast_cmake_configure(a, f, rc) ==
    IF a.build_only \/ a.test_only
    THEN NotRun(0)
    ELSE cetlvast_cmake_run(a.dry_run, f, rc)

\* _cmake_build
cetlvast_cmake_build(a, f, rc) ==
    IF ~a.configure_only /\ ~a.test_only
    THEN IF a.suite \in {"unittest", "docs", "compile"}
         THEN cetlvast_cmake_run(a.dry_run, f, rc)
         ELSE IF a.suite = "ontarget" THEN NotRun(-1)
         ELSE NotRun(0)
    ELSE NotRun(0)

\* _cmake_test
cetlvast_cmake_test(a, f, rc) ==
    IF ~a.configure_only /\ ~a.build_only
    THEN IF a.suite \in {"unittest", "docs", "lint", "compile"}
         THEN cetlvast_cmake_run(a.dry_run, f, rc)
         ELSE IF a.suite = "ontarget" THEN NotRun(-1)
         ELSE NotRun(0)
    ELSE NotRun(0)

\* _cmake_ctest: ctest is started without looking at args.dry_run
cetlvast_cmake_ctest(a, f, rc) ==
    IF ~a.configure_only /\ ~a.build_only /\ a.suite = "compile"
    THEN subprocess_run(f, rc)
    ELSE NotRun(0)

\* what main does with the outcome of a stage function
SuiteReturned(out, last, next) ==
    /\ raised' = out.raised
    /\ IF out.raised # ""
       THEN /\ exit_code' = Some(1)
            /\ pc' = "done"
       ELSE IF Failed(Val(out.result))
       THEN /\ exit_code' = out.result
            /\ pc' = "done"
       ELSE IF last
       THEN /\ exit_code' = Some(0)
            /\ pc' = "done"
       ELSE /\ pc' = next
            /\ UNCHANGED exit_code

\* main up to _handle_lssd
SuiteStart ==
    /\ pc = "parse"
    /\ logging_level' = IF args.verbose = 2 THEN "INFO"
                         ELSE IF args.verbose > 3 THEN "DEBUG"
                         ELSE "WARN"
    /\ IF args.ls_builddir_suite
       THEN /\ exit_code' = Some(0)
            /\ pc' = "done"
       ELSE /\ pc' = "remove"
            /\ UNCHANGED exit_code
    /\ UNCHANGED <<args, fs, idx, test_executions, warnings, errors, raised, calls>>

\* main from _remove_build_dir_action to the test of the suite, with the
\* answers a user may give to the prompt
SuiteRemove ==
    /\ pc = "remove"
    /\ \E response \in {<<>>, <<"y">>, <<"Y">>, <<"n">>, <<"y", "e", "s">>,
                        <<"Y", "e", "s">>, <<"n", "o">>} :
         /\ fs' = remove_build_dir_action(args, fs, response).fs
         /\ raised' = remove_build_dir_action(args, fs, response).raised
         /\ IF remove_build_dir_action(args, fs, response).raised # ""
            THEN /\ exit_code' = Some(1)
                 /\ pc' = "done"
            ELSE IF args.builddir_only \/ args.suite = "none"
            THEN /\ exit_code' = Some(0)
                 /\ pc' = "done"
            ELSE /\ pc' = "configure"
                 /\ UNCHANGED exit_code
    /\ UNCHANGED <<args, idx, test_executions, warnings, errors, calls, logging_level>>

\* main: _create_build_dir_action and _cmake_configure
SuiteConfigure ==
    /\ pc = "configure"
    /\ fs' = cetlvast_create_build_dir_action(args, fs)
    /\ \E rc \in ReturnCodes :
         /\ calls' = Append(calls,
                Call("configure",
                     cetlvast_cmake_configure(args, cetlvast_create_build_dir_action(args, fs), rc)))
         /\ SuiteReturned(
                cetlvast_cmake_configure(args, cetlvast_create_build_dir_action(args, fs), rc),
                args.configure_only, "build")
    /\ UNCHANGED <<args, idx, test_executions, warnings, errors, logging_level>>

\* main: _cmake_build
SuiteBuild ==
    /\ pc = "build"
    /\ \E rc \in ReturnCodes :
         /\ calls' = Append(calls, Call("build", cetlvast_cmake_build(args, fs, rc)))
         /\ SuiteReturned(cetlvast_cmake_build(args, fs, rc), args.build_only, "test")
    /\ UNCHANGED <<args, fs, idx, test_executions, warnings, errors, logging_level>>

\* main: _cmake_test
SuiteTest ==
    /\ pc = "test"
    /\ \E rc \in ReturnCodes :
         /\ calls' = Append(calls, Call("test", cetlvast_cmake_test(args, fs, rc)))
         /\ SuiteReturned(cetlvast_cmake_test(args, fs, rc), FALSE, "ctest")
    /\ UNCHANGED <<args, fs, idx, test_executions, warnings, errors, logging_level>>

\* main: return _cmake_ctest(...)
SuiteCTest ==
    /\ pc = "ctest"
    /\ \E rc \in ReturnCodes :
         /\ calls' = Append(calls, Call("ctest", cetlvast_cmake_ctest(args, fs, rc)))
         /\ SuiteReturned(cetlvast_cmake_ctest(args, fs, rc), TRUE, "done")
    /\ UNCHANGED <<args, fs, idx, test_executions, warnings, errors, logging_level>>

NextSuites == SuiteStart \/ SuiteRemove \/ SuiteConfigure \/ SuiteBuild \/ SuiteTest \/ SuiteCTest

\* ---- the inputs of SpecSuites: every suite with every combination of the
\* flags main looks at, with and without the build directory
InitSuites ==
    /\ \E suite \in {"none", "unittest", "compile", "lint", "docs", "ontarget"},
          f \in [dry_run : BOOLEAN, remove_first : BOOLEAN, force : BOOLEAN,
                 builddir_only : BOOLEAN, configure_only : BOOLEAN, build_only : BOOLEAN,
                 test_only : BOOLEAN, ls_builddir_suite : BOOLEAN],
          v \in 0..MaxVerbose, dir \in BOOLEAN :
         /\ args = [suite |-> suite, verbose |-> v, dry_run |-> f.dry_run,
                    remove_first |-> f.remove_first, force |-> f.force,
                    builddir_only |-> f.builddir_only, configure_only |-> f.configure_only,
                    build_only |-> f.build_only, test_only |-> f.test_only,
                    ls_builddir_suite |-> f.ls_builddir_suite]
         /\ fs = [build_dir |-> dir]
    /\ pc = "parse"
    /\ idx = 0
    /\ test_executions = <<>>
    /\ warnings = 0
    /\ errors = 0
    /\ exit_code = None
    /\ raised = ""
    /\ calls = <<>>
    /\ logging_level = ""

SpecSuites == InitSuites /\ [][NextSuites]_vars

\* ------------------------------------------------------------ the claims
\* the reports of the run in the order main processes them
AllReports == args.glob \o (IF IsNone(args.input) THEN <<>> ELSE Val(args.input))

\* the run has not ended early: every append so far has returned
Running == pc \in {"glob", "input", "write"} \/ (pc = "done" /\ exit_code = Some(0))

\* the number of reports whose append has returned
NumDone ==
    IF pc = "glob" THEN idx - 1
    ELSE IF pc = "input" THEN Len(args.glob) + idx - 1
    ELSE IF pc = "start" THEN 0
    ELSE Len(AllReports)

Completed == pc = "done" /\ exit_code = Some(0)

RECURSIVE ConcatAll(_)
ConcatAll(seqs) == IF seqs = <<>> THEN <<>> ELSE Head(seqs) \o ConcatAll(Tail(seqs))

SuiteChildren(suites) == ConcatAll([i \in 1..Len(suites) |-> suites[i].children])

\* the children of the suites of a report, in document order
Nodes(report) ==
    IF report.parse = "ok" THEN SuiteChildren(testsuites(report.root)) ELSE <<>>

\* the nodes of the first n reports, in processing order
Stream(n) == ConcatAll([i \in 1..n |-> Nodes(AllReports[i])])

HasFile(node) == ~IsNone(node.attrib.file)
HasClassname(node) == ~IsNone(node.attrib.classname)
HasKey(node) == HasFile(node) \/ HasClassname(node)
HasNoKey(node) == ~HasKey(node)
IsMalformed(report) == report.parse = "ParseError"

\* the <testCase> elements of the output in document order
OutCases == ConcatAll([i \in DOMAIN test_executions |-> test_executions[i].children])

Paths == [i \in DOMAIN test_executions |-> test_executions[i].path]

NoDuplicatePaths ==
    \A i, j \in DOMAIN test_executions : Paths[i] = Paths[j] => i = j

\* C1: after a run over any sequence of reports the output holds exactly one
\* <file> element per distinct file path, however many input files
\* contributed test cases for that path (stated with base_dir unset, where
\* the path is the file key itself).
C1_OneFilePerPath == IsNone(args.base_dir) => NoDuplicatePaths

\* C2: file groups are keyed by the normalized path: with base_dir set, raw
\* file keys that normalize to the same relative path share one <file>
\* element, so no two <file> elements carry the same path (stated for runs
\* over a single report, where no second input can add a duplicate).
C2_KeyedByNormalizedPath ==
    (~IsNone(args.base_dir) /\ Len(AllReports) = 1) => NoDuplicatePaths

KeyStream == SelectSeq(Stream(NumDone), HasKey)

FirstSeen(keys, path) ==
    CHOOSE k \in 1..Len(keys) :
        /\ Val(testcase_file(keys[k])) = path
        /\ \A m \in 1..(k - 1) : Val(testcase_file(keys[m])) # path

InFirstSeenOrder(keys, paths) ==
    \A i, j \in DOMAIN paths : i < j => FirstSeen(keys, paths[i]) <= FirstSeen(keys, paths[j])

\* C3: the <file> elements of the output appear in the order in which their
\* file key was first encountered over the inputs in processing order (stated
\* with base_dir unset, where the path is the file key itself).
C3_FirstSeenOrder ==
    (Running /\ IsNone(args.base_dir)) => InFirstSeenOrder(KeyStream, Paths)

\* the test cases named name are found in the output, and only under path
GroupedUnder(name, path) ==
    /\ \E i \in DOMAIN test_executions :
         /\ Paths[i] = path
         /\ \E k \in DOMAIN test_executions[i].children :
              test_executions[i].children[k].name = name
    /\ \A i \in DOMAIN test_executions :
         (\E k \in DOMAIN test_executions[i].children :
              test_executions[i].children[k].name = name) => Paths[i] = path

GroupedByOwnRule(node) ==
    /\ HasFile(node) =>
         GroupedUnder(testcase_name(node), file_path(Val(node.attrib.file), args.base_dir))
    /\ (~HasFile(node) /\ HasClassname(node)) =>
         GroupedUnder(testcase_name(node), file_path(Val(node.attrib.classname), args.base_dir))

\* C4: the file key is decided per test case: a test case with a file
\* attribute is grouped under that value, never under classname; one without
\* file but with classname is grouped under the classname value; a suite
\* mixing both has each case grouped by its own rule.
AllGroupedByOwnRule(stream) == \A n \in 1..Len(stream) : GroupedByOwnRule(stream[n])

C4_PerCaseFileKey == Running => AllGroupedByOwnRule(Stream(NumDone))

\* a suite that mixes both conventions has been transcribed
C4_Witness ==
    /\ Completed
    /\ \E r \in 1..Len(AllReports) :
         Nodes(AllReports[r]) \in {<<tcBoth, tcClass>>, <<tcClass, tcBoth>>}

\* C5: a test case with neither a file nor a classname attribute is absent
\* from the output, exactly one warning is logged for it, and the remaining
\* test cases of the same suite and of later suites and inputs are still
\* transcribed.
DroppedWithOneWarning(stream, out) ==
    /\ \A n \in 1..Len(stream) :
         HasNoKey(stream[n]) => \A k \in 1..Len(out) : out[k].name # testcase_name(stream[n])
    /\ warnings = Len(SelectSeq(stream, HasNoKey))
                  + Len(SelectSeq(SubSeq(AllReports, 1, NumDone), IsMalformed))
    /\ Len(out) = Len(SelectSeq(stream, HasKey))

C5_DroppedWithOneWarning == Running => DroppedWithOneWarning(Stream(NumDone), OutCases)

\* a test case without key was met before another test case of its suite,
\* and a later input was transcribed as well
C5_Witness ==
    /\ Completed
    /\ Len(AllReports) >= 2
    /\ Nodes(AllReports[1]) = <<tcNeither, tcFile2>>
    /\ Nodes(AllReports[2]) = <<tcFile>>
    /\ warnings = 1
    /\ Len(OutCases) = 2

\* C6: an empty attribute counts as absent: no <file> element with an empty
\* path is ever created (an empty file attribute falls back to classname, and
\* a test case whose file and classname are both empty or absent is dropped).
C6_EmptyCountsAsAbsent ==
    \A i \in DOMAIN test_executions : Paths[i] # <<>>

\* ---- claims about one test case (SpecCase: every test case has the one
\* file key FileA, so the i-th <testCase> of the output is the transcription
\* of the i-th node of the stream while no exception was raised)
RECURSIVE WholeMessage(_)
WholeMessage(failures) ==
    IF Len(failures) = 1 THEN getOr(failures[1], "message", <<>>)
    ELSE getOr(failures[1], "message", <<>>) \o <<NL>> \o WholeMessage(Tail(failures))

HasNewline(s) == \E i \in 1..Len(s) : s[i] = NL

Transcribed == Running /\ Len(OutCases) = Len(Stream(NumDone))

\* message, then a newline and the body if there is a body
Rendered(failure) ==
    IF IsNone(failure.text) THEN failure.message
    ELSE failure.message \o <<NL>> \o Val(failure.text)

Merged(failures, out) ==
    IF failures = <<>> THEN out = <<>>
    ELSE /\ Len(out) = 1
         /\ ~HasNewline(out[1].message)
         /\ Rendered(out[1]) = WholeMessage(failures)

AllMerged(stream, out) ==
    \A n \in 1..Len(out) :
        Merged(findall(stream[n].children, "failure"), findall(out[n].children, "failure"))

\* C7: a test case with one or more <failure> children yields exactly one
\* <failure> element: its message is the first line, and its body the other
\* lines joined by newlines, of the failures' messages split on newlines and
\* concatenated in document order; without <failure> child there is none.
C7_FailuresMerged == Transcribed => AllMerged(Stream(NumDone), OutCases)

MergedAs(node, case, first, second, failure) ==
    /\ Len(findall(node.children, "failure")) = 2
    /\ findall(node.children, "failure")[1].attrib.message = Some(first)
    /\ findall(node.children, "failure")[2].attrib.message = Some(second)
    /\ findall(case.children, "failure") = <<failure>>

SomeMergedAs(stream, out, first, second, failure) ==
    \E n \in 1..Len(out) : MergedAs(stream[n], out[n], first, second, failure)

\* two failures were merged, the second one's message ending in the body
C7_Witness ==
    /\ Completed
    /\ SomeMergedAs(Stream(NumDone), OutCases, <<"x", NL>>, <<"x">>,
                    SubElement("failure", <<"x">>, Some(<<NL, "x">>)))

BodyIffSecondLine(whole, failure) ==
    /\ IsNone(failure.text) <=> ~HasNewline(whole)
    /\ ~IsNone(failure.text) => whole = failure.message \o <<NL>> \o Val(failure.text)

AllBodyIffSecondLine(stream, out) ==
    \A n \in 1..Len(out) :
        findall(stream[n].children, "failure") # <<>> =>
            BodyIffSecondLine(WholeMessage(findall(stream[n].children, "failure")),
                              findall(out[n].children, "failure")[1])

\* C8: the <failure> element has no body text exactly when the flattened
\* line sequence has one line; with two or more lines (so also with exactly
\* one line after the first) the body is the lines after the first.
C8_BodyIffSecondLine == Transcribed => AllBodyIffSecondLine(Stream(NumDone), OutCases)

TwoLines(node, case) ==
    /\ Len(findall(node.children, "failure")) = 1
    /\ findall(node.children, "failure")[1].attrib.message = Some(<<NL, "x">>)
    /\ findall(case.children, "failure") = <<SubElement("failure", <<>>, Some(<<"x">>))>>

SomeTwoLines(stream, out) == \E n \in 1..Len(out) : TwoLines(stream[n], out[n])

\* a failure of exactly two lines has the second line as its body
C8_Witness == Completed /\ SomeTwoLines(Stream(NumDone), OutCases)

DurationPreserved(time, duration) ==
    float(duration) = (IF IsNone(time) THEN Some(0) ELSE float(Val(time)))

AllDurationsPreserved(stream, out) ==
    \A n \in 1..Len(out) : DurationPreserved(stream[n].attrib.time, out[n].duration)

\* C9: the duration of every output test case is the numeric value of the
\* input time attribute, fractional part included, and 0 without time.
C9_DurationPreserved == Transcribed => AllDurationsPreserved(Stream(NumDone), OutCases)

\* C10: a test case whose time attribute is not a parsable number is
\* transcribed with duration zero: the run does not abort or raise.
C10_UnparsableTimeIsZero == raised # "ValueError"

\* ---- claims about the <skipped> child, the name and the path (SpecAttr)
\* t is s without its trailing whitespace
IsTrimOf(t, s) ==
    /\ Len(t) <= Len(s)
    /\ SubSeq(s, 1, Len(t)) = t
    /\ t # <<>> => t[Len(t)] \notin Whitespace
    /\ \A i \in (Len(t) + 1)..Len(s) : s[i] \in Whitespace

BodyOf(element) == IF IsNone(element.text) THEN <<>> ELSE Val(element.text)

TrimmedAs(skipped, out) ==
    /\ Len(out) = 1
    /\ IsTrimOf(out[1].message, getOr(skipped, "message", <<>>))
    /\ ~IsNone(out[1].text)
    /\ IsTrimOf(Val(out[1].text), BodyOf(skipped))

SkippedTrimmed(skipped, out) ==
    IF IsNone(skipped) THEN out = <<>> ELSE TrimmedAs(Val(skipped), out)

AllSkippedTrimmed(stream, out) ==
    \A n \in 1..Len(out) :
        SkippedTrimmed(find(stream[n].children, "skipped"), findall(out[n].children, "skipped"))

TrimmedWhenTranscribed == Transcribed => AllSkippedTrimmed(Stream(NumDone), OutCases)

\* C11: a test case with a <skipped> child yields an output <skipped> element
\* whose message and body are the input's without trailing whitespace; a
\* <skipped> child without body text yields an empty body, and processing
\* continues without an error (no AttributeError ends the run).
C11_SkippedTrimmed == raised # "AttributeError" /\ TrimmedWhenTranscribed

\* ---- claims about the run as a whole (SpecRun: every report creates its
\* own <file> elements in document order, so the <testCase> elements of the
\* output are in the order of the nodes of the stream)
Names(out) == [k \in 1..Len(out) |-> out[k].name]

KeyedNames(keyed) == [k \in 1..Len(keyed) |-> testcase_name(keyed[k])]

NumMalformed(n) == Len(SelectSeq(SubSeq(AllReports, 1, n), IsMalformed))

\* the first n reports are in the output, the malformed ones as a warning
Processed(n) ==
    /\ warnings = NumMalformed(n)
    /\ Names(OutCases) = KeyedNames(SelectSeq(Stream(n), HasKey))

WithInput == ~IsNone(args.input)

Ended == pc = "done"

\* the run can write: it is a dry run or the directory of the output exists
CanWrite == args.dry_run \/ fs.output_dir

Written == fs.output = Some(test_executions)

\* the output file is as it was before the run: no run produces Stale
Unwritten == fs.output \in {None, Some(Stale)}

\* C12: without stop-on-failure (in a run given --input), a malformed report
\* anywhere in the sequence is skipped with one warning and adds nothing to
\* the output tree, every other report before and after it is transcribed,
\* and the run ends with exit code 0 and, when it is a real run into an
\* existing directory, with the output written.
C12_MalformedSkipped ==
    (~args.stop_on_failure /\ WithInput /\ pc # "start") =>
        /\ Processed(NumDone)
        /\ (Ended /\ CanWrite) => exit_code = Some(0)
        /\ (Ended /\ ~args.dry_run /\ fs.output_dir) => Written

\* a malformed report between two well-formed ones was skipped and the
\* output written
C12_Witness ==
    /\ ~args.stop_on_failure
    /\ args.glob = <<>>
    /\ args.input = Some(<<RunA, Malformed, RunB>>)
    /\ Ended
    /\ exit_code = Some(0)
    /\ warnings = 1
    /\ Len(OutCases) = 3
    /\ Written

SomeMalformed == \E i \in 1..Len(AllReports) : IsMalformed(AllReports[i])

FirstMalformed ==
    CHOOSE i \in 1..Len(AllReports) :
        IsMalformed(AllReports[i]) /\ \A m \in 1..(i - 1) : ~IsMalformed(AllReports[m])

\* exactly the reports before the first malformed one are in the output
StoppedAtFirstMalformed ==
    /\ warnings = 1
    /\ Names(OutCases) = KeyedNames(SelectSeq(Stream(FirstMalformed - 1), HasKey))

\* C13: with stop-on-failure the first malformed report ends the run at once
\* with exit code 1: the run is never at a report after a malformed one, the
\* output holds the reports before it and nothing of those after it, and the
\* output file is never written.
C13_StopOnFailure ==
    args.stop_on_failure =>
        /\ pc \in {"glob", "input", "write"} => NumMalformed(NumDone) = 0
        /\ SomeMalformed => Unwritten
        /\ (Ended /\ SomeMalformed) => exit_code = Some(1)
        /\ (Ended /\ SomeMalformed /\ WithInput) => StoppedAtFirstMalformed

\* a real run was ended by a malformed report after a well-formed one and
\* before another
C13_Witness ==
    /\ args.stop_on_failure
    /\ ~args.dry_run
    /\ fs.output_dir
    /\ args.glob = <<>>
    /\ args.input = Some(<<RunA, Malformed, RunB>>)
    /\ Ended
    /\ exit_code = Some(1)
    /\ Len(OutCases) = 1
    /\ fs.output = Some(Stale)

NoInputResolved == IsNone(args.input) /\ args.glob = <<>>

\* C14: when no input is resolved at all (no --input argument and no file
\* matching the pattern) the run logs an error and ends with exit code 1,
\* having processed nothing, and no output file is written.
C14_NoInputIsFatal ==
    NoInputResolved =>
        /\ Unwritten
        /\ pc # "start" =>
             (Ended /\ errors = 1 /\ exit_code = Some(1) /\ test_executions = <<>>)

\* a real run into an existing directory ended without any input
C14_Witness ==
    /\ NoInputResolved
    /\ ~args.dry_run
    /\ fs.output_dir
    /\ Ended
    /\ errors = 1
    /\ exit_code = Some(1)

\* no --input argument, and the pattern matches well-formed reports only
GlobAlone ==
    /\ IsNone(args.input)
    /\ args.glob # <<>>
    /\ \A i \in 1..Len(args.glob) : ~IsMalformed(args.glob[i])

AllTranscribed == Names(OutCases) = KeyedNames(SelectSeq(Stream(Len(AllReports)), HasKey))

\* C15: the inputs may come from the pattern alone: a run without --input
\* whose pattern matches one or more well-formed reports transcribes them,
\* writes the output and ends with exit code 0; a run returns 1 only when
\* no input was resolved from either source or when stop-on-failure met a
\* malformed report.
C15_GlobAlone ==
    /\ (GlobAlone /\ Ended /\ CanWrite) =>
         (exit_code = Some(0) /\ AllTranscribed /\ (~args.dry_run => Written))
    /\ (Ended /\ exit_code = Some(1) /\ raised = "") =>
         (AllReports = <<>> \/ (args.stop_on_failure /\ SomeMalformed))

\* what a run returns and leaves in the output tree, by its reports and its
\* stop_on_failure flag alone: dry_run is not looked at
ExpectedExit == IF IsNone(args.input) \/ (args.stop_on_failure /\ SomeMalformed) THEN 1 ELSE 0

ExpectedTree ==
    IF IsNone(args.input) THEN test_executions = <<>> /\ warnings = 0
    ELSE IF args.stop_on_failure /\ SomeMalformed THEN StoppedAtFirstMalformed
    ELSE Processed(Len(AllReports))

DryRunAsRealRun == (Ended /\ CanWrite) => (exit_code = Some(ExpectedExit) /\ ExpectedTree)

\* C16: no step of a dry run creates or modifies the output file, whatever
\* the inputs and flags, while the dry run processes every input and returns
\* the exit code as the real run does: the tree, the warnings and the exit
\* code at the end of a run are one function of the inputs and of
\* stop_on_failure, for the dry run and for the real run whose write can
\* succeed.
C16_DryRunNeverWrites == [][args.dry_run => fs' = fs]_vars /\ []DryRunAsRealRun

\* a dry run skipped a malformed report, transcribed the others and ended
\* with exit code 0, the output file of an earlier run being as it was
C16_Witness ==
    /\ args.dry_run
    /\ ~args.stop_on_failure
    /\ fs.output_dir
    /\ args.input = Some(<<RunA, Malformed, RunB>>)
    /\ Ended
    /\ exit_code = Some(0)
    /\ Len(OutCases) = 3 + Len(args.glob) - NumMalformed(Len(args.glob))
    /\ fs.output = Some(Stale)

\* ---- claims about the path and the name (SpecAttr)
\* the path of the <file> element of every <testCase>, in document order
CasePaths ==
    ConcatAll([i \in DOMAIN test_executions |->
                 [k \in DOMAIN test_executions[i].children |-> test_executions[i].path]])

\* the key names a file below the directory base, without "." or ".." in it
IsUnder(key, base) ==
    /\ Len(key) > Len(base)
    /\ SubSeq(key, 1, Len(base)) = base
    /\ \A i \in 1..Len(key) : key[i] \notin {".", ".."}

NormalPath(key, base_dir, path) ==
    /\ IsNone(base_dir) => path = key
    /\ (~IsNone(base_dir) /\ IsUnder(key, Val(base_dir))) =>
         path = SubSeq(key, Len(Val(base_dir)) + 1, Len(key))

AllNormalPaths(stream, paths) ==
    \A n \in 1..Len(paths) : NormalPath(Val(testcase_file(stream[n])), args.base_dir, paths[n])

\* C17: with base_dir unset the path of a <file> element is the raw file key
\* unchanged; with base_dir set and a file key below it the path is the key
\* without the base_dir prefix (base_dir /repo and key /repo/src/x.cpp give
\* src/x.cpp).
C17_NormalPaths == Transcribed => AllNormalPaths(Stream(NumDone), CasePaths)

\* /repo/src/x.cpp was transcribed under base_dir /repo as src/x.cpp
C17_Witness ==
    /\ Completed
    /\ args.base_dir = Some(RepoDir)
    /\ args.input = Some(<<BareSuite(<<tcFileX, tcFile>>), BareSuite(<<tcFile>>)>>)
    /\ \E i \in DOMAIN test_executions :
         /\ test_executions[i].path = <<"src", "x.cpp">>
         /\ Names(test_executions[i].children) = <<testcase_name(tcFileX)>>

\* the key names a file that is not below the directory base
IsElsewhere(key, base) == isabs(key) /\ SubSeq(key, 1, Len(base)) # base

KeptWhenElsewhere(key, base_dir, path) ==
    (~IsNone(base_dir) /\ IsElsewhere(key, Val(base_dir))) => path = key

AllKeptWhenElsewhere(stream, paths) ==
    \A n \in 1..Len(paths) :
        KeptWhenElsewhere(Val(testcase_file(stream[n])), args.base_dir, paths[n])

\* C18: with base_dir set, a file key that is not below base_dir (a file on
\* an unrelated root) keeps its original value as the path: no relative path
\* starting with ".." is produced, and the run does not fail.
C18_UnrelatedRootKept ==
    /\ raised # "ValueError"
    /\ Transcribed => AllKeptWhenElsewhere(Stream(NumDone), CasePaths)

NameAttr(node) == IF IsNone(node.attrib.name) THEN <<>> ELSE Val(node.attrib.name)

NameAsClaimed(node, name) ==
    /\ IsNone(node.attrib.type_param) => name = NameAttr(node)
    /\ (~IsNone(node.attrib.type_param) /\ Val(node.attrib.type_param) # <<>>) =>
         name = NameAttr(node) \o <<" ">> \o Val(node.attrib.type_param)

AllNamesAsClaimed(stream, out) ==
    \A n \in 1..Len(out) : NameAsClaimed(stream[n], out[n].name)

\* C19: the output name of a test case is its name attribute (the empty
\* string when absent) when it has no type_param, and the name, one space
\* and type_param when type_param is present and not empty.
C19_NameWithTypeParam == Transcribed => AllNamesAsClaimed(Stream(NumDone), OutCases)

\* name "Foo" with type_param "int" was transcribed as "Foo int"
C19_Witness ==
    /\ Completed
    /\ args.input = Some(<<BareSuite(<<TestcaseNode("testcase", NamedAttrib(Some(Foo), Some(IntParam)), <<>>)>>)>>)
    /\ Names(OutCases) \in {<<(<<"F", "o", "o", " ", "i", "n", "t">>)>>,
                            <<(<<"f">>), (<<"F", "o", "o", " ", "i", "n", "t">>)>>}

NameWithoutSuffix(node, name) ==
    node.attrib.type_param = Some(<<>>) => name = NameAttr(node)

AllNamesWithoutSuffix(stream, out) ==
    \A n \in 1..Len(out) : NameWithoutSuffix(stream[n], out[n].name)

\* C20: a test case whose type_param is present but empty gets exactly its
\* name attribute as output name: no suffix and no trailing space.
C20_EmptyTypeParam == Transcribed => AllNamesWithoutSuffix(Stream(NumDone), OutCases)

\* ---- claims about the order and the number of the test cases (SpecQuirks:
\* every node has a key, two of them share the key "" under different names)
RECURSIVE IsSubseq(_, _)
IsSubseq(a, b) ==
    IF a = <<>> THEN TRUE
    ELSE IF b = <<>> THEN FALSE
    ELSE IF Head(a) = Head(b) THEN IsSubseq(Tail(a), Tail(b))
    ELSE IsSubseq(a, Tail(b))

Occurrences(name, names) == Cardinality({k \in 1..Len(names) : names[k] = name})

\* the nodes of the stream that belong under the <file> element of that path
KeyedUnder(keyed, path) ==
    SelectSeq(keyed, LAMBDA node : file_path(Val(testcase_file(node)), args.base_dir) = path)

NoneLostOrMoved(keyed, out) ==
    /\ Len(out) = Len(keyed)
    /\ \A k \in 1..Len(keyed) :
         Occurrences(testcase_name(keyed[k]), Names(out))
             = Occurrences(testcase_name(keyed[k]), KeyedNames(keyed))
    /\ \A i \in DOMAIN test_executions :
         IsSubseq(Names(test_executions[i].children),
                  KeyedNames(KeyedUnder(keyed, test_executions[i].path)))

\* C21: no test case is reordered, merged or deduplicated: the output holds
\* as many <testCase> elements as the parsed inputs hold usable nodes, every
\* name as often as it was met, and the test cases of every <file> element
\* are in the order in which they were met in the input stream.
C21_NoneLostOrMoved == Running => NoneLostOrMoved(SelectSeq(Stream(NumDone), HasKey), OutCases)

\* two test cases of one key and different names are under one <file>
\* element in the order of the input, and one name is in the output twice
C21_Witness ==
    /\ Completed
    /\ args.glob = <<BareSuite(<<tcFile>>)>>
    /\ args.input = Some(<<BareSuite(<<tcEmptyFile, tcEmptyBoth>>), BareSuite(<<tcFile>>)>>)
    /\ Len(test_executions) = 3
    /\ Names(test_executions[2].children) = <<(<<"e">>), (<<"z">>)>>
    /\ Names(OutCases) = <<(<<"f">>), (<<"e">>), (<<"z">>), (<<"f">>)>>

\* ---- claims about the order of the files the pattern matches (SpecGlob)
\* the tree after the reports were appended one after the other
RECURSIVE Appending(_, _, _)
Appending(tree, reports, base_dir) ==
    IF reports = <<>> THEN tree
    ELSE Appending(append(Head(reports), tree, base_dir).tree, Tail(reports), base_dir)

\* the orders in which the file system may enumerate the matched files
Reorderings(glob) ==
    {[i \in 1..Len(glob) |-> glob[p[i]]] : p \in Permutations(1..Len(glob))}

SameForEveryOrder(document) ==
    \A glob \in Reorderings(args.glob) :
        Appending(<<>>, glob \o Val(args.input), args.base_dir) = document

\* C22: the output document is determined by the set of input files and the
\* flags: the document a run writes is the one it writes for every order in
\* which the file system enumerates the files matched by the pattern.
C22_EnumerationOrderFree ==
    (Ended /\ ~args.dry_run /\ Written) => SameForEveryOrder(test_executions)

\* C23: a real run that gets as far as the write ends with the complete
\* document in the output file, whether or not the directory of the output
\* path existed before (it exists afterwards) and whatever file was at that
\* path; the run does not fail because of a missing directory.
C23_MissingDirCreated ==
    /\ raised # "FileNotFoundError"
    /\ (Ended /\ ~args.dry_run /\ ExpectedExit = 0) =>
         (fs.output_dir /\ Written /\ exit_code = Some(0))

\* ---- claims about the loader (SpecLoad)
\* the run ended inside one of the two loops of main, at report idx
EndedInLoop == Ended /\ idx > 0

\* C29: no per-input error leaves the loader: append() returns 0 or 1 for
\* every input path, also for an --input path that does not exist, so no
\* run ends in a loop with an exception, and without stop-on-failure every
\* run given --input gets through all its inputs.
C29_NoErrorLeavesLoader ==
    /\ EndedInLoop => raised = ""
    /\ (~args.stop_on_failure /\ WithInput /\ Ended) => ~EndedInLoop

\* ---- claims about the nodes that are transcribed (SpecAttr)
IsTestcase(node) == node.tag = "testcase" /\ HasKey(node)

OnlyTestcases(stream, out) == Names(out) = KeyedNames(SelectSeq(stream, IsTestcase))

\* the report with its bare <testsuite> root put into a <testsuites> root
Wrapped(report) == [report EXCEPT !.root = Element("testsuites", NoAttrib, None, <<report.root>>)]

BareRootAsSoleSuite(report) ==
    report.root.tag = "testsuite" =>
        junit_to_sonarqube_generic_execution_format(report, <<>>, args.base_dir)
            = junit_to_sonarqube_generic_execution_format(Wrapped(report), <<>>, args.base_dir)

\* C30: only the direct children of a suite that are test cases are
\* transcribed: a child with another tag (<properties>, <system-out>) yields
\* no <testCase>, with or without file or classname attribute; and a bare
\* <testsuite> root is processed as a <testsuites> root holding that suite.
C30_OnlyTestcases ==
    /\ \A r \in 1..Len(AllReports) : BareRootAsSoleSuite(AllReports[r])
    /\ Running => OnlyTestcases(Stream(NumDone), OutCases)

\* ---- claims about the stages of build-tools verify.py (SpecStages)
StageOrder == <<"configure", "build", "unittest", "ctest", "release", "install">>

StageActions == {<<"configure">>, <<"build">>, <<"test">>, <<"release">>}

\* the number of stage functions the action A stands for
StagesOf(A) ==
    CASE A = <<"configure">> -> 1
      [] A = <<"build">> -> 2
      [] A = <<"test">> -> 4
      [] A = <<"release">> -> 6

Expected(A) == SubSeq(StageOrder, 1, StagesOf(A))

Targets(cs) == [i \in 1..Len(cs) |-> cs[i].target]

IsPrefix(a, b) == Len(a) <= Len(b) /\ a = SubSeq(b, 1, Len(a))

\* the calls cs are those of a run of action A: the stages in their order and
\* none after A, every stage but the last returned 0, a run that goes on has
\* seen only 0, and a finished run returns the non-zero code of its last stage
\* or else has run every stage up to A and returns 0
RunOf(A, cs, finished, code) ==
    /\ IsPrefix(Targets(cs), Expected(A))
    /\ \A i \in 1..(Len(cs) - 1) : cs[i].result = Some(0)
    /\ ~finished => \A i \in 1..Len(cs) : cs[i].result = Some(0)
    /\ finished => /\ cs # <<>>
                   /\ IF cs[Len(cs)].result # Some(0)
                      THEN code = cs[Len(cs)].result
                      ELSE Targets(cs) = Expected(A) /\ code = Some(0)

\* the run was asked for the stage action A, without clean
Requested(A) == args.action.type = "QualifiedAction" /\ args.action.name = A

\* C24: the stages run in the order configure, build, test (unittest target,
\* then ctest), release (release target, then install): for a requested
\* action A every stage up to and including A runs and none after it, and a
\* stage that returns non-zero ends the run with that code before a later
\* stage is started.
C24_StagesInOrder ==
    \A A \in StageActions : Requested(A) => RunOf(A, calls, Ended, exit_code)

\* a run of release that ended when the unittest target returned 1
C24_Witness ==
    /\ Ended
    /\ Requested(<<"release">>)
    /\ ~args.dry_run
    /\ Targets(calls) = <<"configure", "build", "unittest">>
    /\ calls[3].result = Some(1)
    /\ exit_code = Some(1)

\* the run was asked for clean alone
RequestedClean ==
    /\ args.action.type = "QualifiedAction"
    /\ args.action.name = <<"clean">>
    /\ IsNone(args.action.suffix)

\* the run was asked for clean-X: main has put X in the place of the action
\* once the clean step is over
RequestedCleanThen(X) ==
    \/ /\ args.action.type = "QualifiedAction"
       /\ args.action.name = <<"clean">>
       /\ args.action.suffix = Some(X)
    \/ /\ args.action.type = "str"
       /\ args.action.name = X
       /\ pc # "parse"

CleanAlone ==
    (Ended /\ RequestedClean) => (Targets(calls) = <<"clean">> /\ exit_code = Some(0))

CleanThen(X) ==
    (RequestedCleanThen(X) /\ pc \notin {"parse", "clean"}) =>
        /\ calls # <<>>
        /\ calls[1].target = "clean"
        /\ RunOf(X, Tail(calls), Ended, exit_code)

\* C25: the action clean on its own performs only the clean step and exits 0
\* without configuring, building or testing; clean-X, for X one of configure,
\* build, test and release, runs the clean step first and then the stages
\* that X alone would run.
C25_CleanFirst ==
    /\ CleanAlone
    /\ \A X \in StageActions : CleanThen(X)


\* ---- claims about cetlvast verify.py (SpecSuites)
NoCommandRun == \A i \in 1..Len(calls) : ~calls[i].run

\* no command was started, and none was tried and failed to start
OnlyLogged == NoCommandRun /\ raised # "FileNotFoundError"

\* C26: with --dry-run, for every suite and every combination of flags, no
\* cmake or ctest command is executed and no build directory is created or
\* removed: the script only logs what it would have done.
C26_DryRunDoesNothing ==
    /\ [][args.dry_run => fs' = fs]_vars
    /\ [](args.dry_run => OnlyLogged)

\* C27: --remove-first applies to the configure step only: with --build-only
\* it has no effect, the run does not stop for it and an existing build
\* directory is left in place, whatever the other flags are.
C27_RemoveFirstOnlyConfigures ==
    /\ [][(args.build_only /\ fs.build_dir) => fs'.build_dir]_vars
    /\ [](args.build_only => raised # "RuntimeError")

\* the verify.py column of the table in the help of --verbose
DocumentedLevel(verbose) ==
    CASE verbose \in {0, 1} -> "WARN"
      [] verbose = 2 -> "INFO"
      [] verbose >= 3 -> "DEBUG"

\* C28: for every count of -v the logging level is the one of the verbosity
\* table: warning for 0 and 1, info for 2, debug for 3 and for 4 or more.
C28_LevelAsDocumented ==
    pc # "parse" => logging_level = DocumentedLevel(args.verbose)


====
